---- MODULE Spec2Model ----
(***************************************************************************)
(* State-machine model of NolaNewsMonitor (src/monitor.js): the relay      *)
(* fallback of fetchRealNewsData, the extraction of parseNewsFromHTML, the *)
(* change detection, the newsworthiness score, the two record generations  *)
(* and the three localStorage buckets.                                     *)
(*                                                                         *)
(* Text (urls, titles) is a sequence of tokens; a token is an atomic piece *)
(* of a string and the substring tests of the code are tables over tokens. *)
(* Times are milliseconds relative to an arbitrary origin.                 *)
(***************************************************************************)
EXTENDS Integers, Sequences, FiniteSets, TLC

VARIABLES
    activeKeywords,       \* this.activeKeywords
    lastCheck,            \* this.lastCheck
    previousNews,         \* this.previousNews
    currentNews,          \* this.currentNews
    autoCheckInterval,    \* this.autoCheckInterval (timer id or null)
    autoCheckEnabled,     \* this.autoCheckEnabled
    checkIntervalMinutes, \* this.checkIntervalMinutes
    notificationsEnabled, \* this.notificationsEnabled
    permission,           \* Notification.permission
    notified,             \* the notifications the latest sendNotifications raised
    localStorage,         \* the three buckets nola_monitor_data/_history/_autocheck
    timers,               \* the repeating timers armed by setInterval
    cycles,               \* the checkForUpdates invocations in flight
    status,               \* class of the #status element
    btnDisabled,          \* disabled flag of #checkNowBtn
    changes,              \* the changes of the latest completed detectChanges
    lastMarkup,           \* markup retrieved by the latest applied cycle
    lastCall,             \* log of the latest completed fetchRealNewsData call
    now,                  \* the clock read by Date.now()
    checks,               \* number of checkForUpdates invocations so far
    callArgs,             \* arguments of the direct calls made so far
    callResult            \* value returned by the latest direct call

vars == <<activeKeywords, lastCheck, previousNews, currentNews,
          autoCheckInterval, autoCheckEnabled, checkIntervalMinutes,
          notificationsEnabled, permission, notified, localStorage, timers,
          cycles, status,
          btnDisabled, changes, lastMarkup, lastCall, now,
          checks, callArgs, callResult>>

-----------------------------------------------------------------------------
(* Bounds of the model *)

MaxCycles == 2

MaxTicks == 1

MaxLen == 3

MaxCalls == 11

MaxChecks == 2

-----------------------------------------------------------------------------
(* JavaScript values *)

JSNull == [kind |-> "null", v |-> 0]

JSNaN == [kind |-> "NaN", v |-> 0]

JSNum(n) == [kind |-> "num", v |-> n]

None == [kind |-> "none"]

RECURSIVE TextLength(_)
TextLength(text) ==
    IF text = <<>> THEN 0 ELSE Len(Head(text)) + TextLength(Tail(text))

-----------------------------------------------------------------------------
(* Token tables: what the string tests of the code answer on each token *)

HourMs == 3600000

ContainsSlash(tok) == tok \in {"/", "http://", "https://"}

StartsWithHttp(tok) == tok \in {"http://", "https://"}

IncludesLocalhost(tok) == tok \in {"localhost", "localhost-guide"}

IsPort(tok) == tok \in {":8000"}

\* the match of /localhost/ inside a token replaced by 'nola.gov'
ReplaceInToken(tok) ==
    CASE tok = "localhost" -> "nola.gov"
      [] tok = "localhost-guide" -> "nola.gov-guide"
      [] OTHER -> tok

\* /[A-Z][a-z]+ \d{1,2}, \d{4}/ matches inside the token
MatchesDate(tok) == tok \in {"August 7, 2025", "Mardi 99, 2025"}

IncludesFrom(tok) == tok \in {"From NOPD News", "From City of New Orleans"}

\* new Date(date).getTime(): an unparseable date yields NaN, it never throws
DateGetTime(date) ==
    IF date = "August 7, 2025" THEN JSNum(0) ELSE JSNaN

ToLowerCase(tok) ==
    CASE tok = "BREAKING:" -> "breaking:"
      [] tok = "Emergency" -> "emergency"
      [] tok = "Budget" -> "budget"
      [] tok = "Council" -> "council"
      [] tok = "Mayor" -> "mayor"
      [] tok = "Police" -> "police"
      [] tok = "Housing" -> "housing"
      [] OTHER -> tok

\* needle occurs inside the token
TokIncludes(tok, needle) ==
    \/ tok = needle
    \/ tok = "breaking:" /\ needle = "breaking"
    \/ tok = "Office of the Mayor" /\ needle = "Mayor"
    \/ tok = "Mayor, City of New Orleans"
         /\ needle \in {"Mayor", "City of New Orleans"}

Includes(text, needle) == \E k \in DOMAIN text : TokIncludes(text[k], needle)

RECURSIVE MapLower(_)
MapLower(text) ==
    IF text = <<>> THEN <<>>
    ELSE <<ToLowerCase(Head(text))>> \o MapLower(Tail(text))

RECURSIVE Trim(_)
Trim(text) ==
    IF text = <<>> THEN <<>>
    ELSE IF Head(text) = " " THEN Trim(Tail(text))
    ELSE IF text[Len(text)] = " " THEN Trim(SubSeq(text, 1, Len(text) - 1))
    ELSE text

RECURSIVE Flatten(_)
Flatten(lines) ==
    IF lines = <<>> THEN <<>> ELSE Head(lines) \o Flatten(Tail(lines))

-----------------------------------------------------------------------------
(* parseNewsFromHTML *)

\* url.replace(/https?:\/\/localhost(:\d+)?/g, 'https://nola.gov')
RECURSIVE ReplaceSchemeLocalhost(_)
ReplaceSchemeLocalhost(url) ==
    IF Len(url) < 2 THEN url
    ELSE IF StartsWithHttp(url[1]) /\ IncludesLocalhost(url[2])
    THEN LET rest == SubSeq(url, 3, Len(url))
             skip == url[2] = "localhost" /\ rest # <<>> /\ IsPort(Head(rest))
         IN  <<"https://", ReplaceInToken(url[2])>>
                \o ReplaceSchemeLocalhost(IF skip THEN Tail(rest) ELSE rest)
    ELSE <<Head(url)>> \o ReplaceSchemeLocalhost(Tail(url))

\* url.replace(/localhost(:\d+)?/g, 'nola.gov')
RECURSIVE ReplaceLocalhost(_)
ReplaceLocalhost(url) ==
    IF url = <<>> THEN <<>>
    ELSE IF IncludesLocalhost(Head(url))
    THEN LET rest == Tail(url)
             skip == Head(url) = "localhost" /\ rest # <<>> /\ IsPort(Head(rest))
         IN  <<ReplaceInToken(Head(url))>>
                \o ReplaceLocalhost(IF skip THEN Tail(rest) ELSE rest)
    ELSE <<Head(url)>> \o ReplaceLocalhost(Tail(url))

NormalizeUrl(href) ==
    IF \E k \in DOMAIN href : IncludesLocalhost(href[k])
    THEN ReplaceLocalhost(ReplaceSchemeLocalhost(href))
    ELSE IF href # <<>> /\ Head(href) = "/"
    THEN <<"https://", "nola.gov">> \o href
    ELSE IF href # <<>> /\ ~StartsWithHttp(Head(href))
            /\ ~Includes(href, "nopdnews.com")
    THEN <<"https://", "nola.gov", "/">> \o href
    ELSE href

\* url.split('/').pop()
RECURSIVE LastSegment(_)
LastSegment(url) ==
    IF url = <<>> THEN <<>>
    ELSE IF ContainsSlash(url[Len(url)]) THEN <<>>
    ELSE LastSegment(SubSeq(url, 1, Len(url) - 1)) \o <<url[Len(url)]>>

IndexString(index) == <<"0", "1", "2", "3", "4", "5">>[index + 1]

MakeId(url, index) ==
    IF LastSegment(url) # <<>> THEN LastSegment(url)
    ELSE <<"item-", IndexString(index)>>

\* textContent.match(/([A-Z][a-z]+ \d{1,2}, \d{4})/)
RECURSIVE DateMatch(_)
DateMatch(text) ==
    IF text = <<>> THEN ""
    ELSE IF MatchesDate(Head(text)) THEN Head(text)
    ELSE DateMatch(Tail(text))

ExtractSource(text) ==
    IF Includes(text, "From NOPD News") THEN "NOPD News"
    ELSE "City of New Orleans"

\* first line after position i that is neither attribution nor date and is
\* longer than 20 characters
RECURSIVE ScanExcerpt(_)
ScanExcerpt(lines) ==
    IF lines = <<>> THEN <<>>
    ELSE LET nextLine == Head(lines)
         IN  IF /\ ~(\E k \in DOMAIN nextLine : IncludesFrom(nextLine[k]))
                /\ DateMatch(nextLine) = ""
                /\ TextLength(nextLine) > 20
             THEN nextLine
             ELSE ScanExcerpt(Tail(lines))

RECURSIVE ExtractExcerpt(_, _)
ExtractExcerpt(lines, title) ==
    IF lines = <<>> THEN <<>>
    ELSE IF Head(lines) = title THEN ScanExcerpt(Tail(lines))
    ELSE ExtractExcerpt(Tail(lines), title)

\* h3 a[href*="/"], h3 a[href*="nopdnews.com"]
Matched(a) ==
    \/ \E k \in DOMAIN a.href : ContainsSlash(a.href[k])
    \/ Includes(a.href, "nopdnews.com")

QuerySelectorAll(html) == SelectSeq(html, Matched)

\* the record assembled for the matched anchor at position index (0-based)
MakeItem(a, index, clock) ==
    LET title == Trim(a.text)
        url == NormalizeUrl(a.href)
        textContent == Flatten(a.container)
        date == DateMatch(textContent)
        excerpt == ExtractExcerpt(a.container, title)
    IN  [id |-> MakeId(url, index),
         title |-> title,
         url |-> url,
         date |-> IF date = "" THEN "Recent" ELSE date,
         source |-> ExtractSource(textContent),
         excerpt |-> IF excerpt = <<>> THEN <<"No description available">>
                     ELSE excerpt,
         timestamp |-> IF date # "" THEN DateGetTime(date) ELSE JSNum(clock)]

RECURSIVE ParseFromKeepingThree(_, _, _)
ParseFromKeepingThree(elements, index, clock) ==
    IF index >= Len(elements) THEN <<>>
    ELSE LET item == MakeItem(elements[index + 1], index, clock)
         IN  (IF TextLength(item.title) >= 3 THEN <<item>> ELSE <<>>)
                \o ParseFromKeepingThree(elements, index + 1, clock)

\* lines 391-492: articleElements.forEach((linkElement, index) => ...)
RECURSIVE ParseFrom(_, _, _)
ParseFrom(elements, index, clock) ==
    IF index >= Len(elements) THEN <<>>
    ELSE LET item == MakeItem(elements[index + 1], index, clock)
         IN  (IF TextLength(item.title) > 3 THEN <<item>> ELSE <<>>)
                \o ParseFrom(elements, index + 1, clock)

parseNewsFromHTML(html, clock) == ParseFrom(QuerySelectorAll(html), 0, clock)

-----------------------------------------------------------------------------
(* detectChanges *)

SameRecord(a, b) == a = b

\* prev.id === current.id
SameId(a, b) == a.id = b.id

ExistsInTail(item, list) ==
    \E k \in DOMAIN list \ {1} : SameId(list[k], item)

\* list.some(x => x.id === item.id)
ExistsIn(item, list) == \E k \in DOMAIN list : SameId(list[k], item)

RECURSIVE PushMissingInverted(_, _, _)
PushMissingInverted(list, other, type) ==
    IF list = <<>> THEN <<>>
    ELSE (IF ExistsIn(Head(list), other)
          THEN <<[type |-> type, item |-> Head(list)]>>
          ELSE <<>>) \o PushMissingInverted(Tail(list), other, type)

\* the events pushed by one forEach over list, looking each item up in other
RECURSIVE PushMissing(_, _, _)
PushMissing(list, other, type) ==
    IF list = <<>> THEN <<>>
    ELSE (IF ~ExistsIn(Head(list), other)
          THEN <<[type |-> type, item |-> Head(list)]>>
          ELSE <<>>) \o PushMissing(Tail(list), other, type)

detectChangesNewOnly(previous, current) ==
    PushMissing(current, previous, "NEW")

detectChangesRemovedFirst(previous, current) ==
    PushMissing(previous, current, "REMOVED")
        \o PushMissing(current, previous, "NEW")

detectChanges(previous, current) ==
    PushMissing(current, previous, "NEW")
        \o PushMissing(previous, current, "REMOVED")

-----------------------------------------------------------------------------
(* findKeywords, calculateNewsworthiness, displayNews *)

keywords == {"budget", "police", "housing", "development", "mayor", "council"}

findKeywords(item, active) ==
    LET text == MapLower(item.title \o <<" ">> \o item.excerpt)
    IN  {kw \in active : Includes(text, kw)}

MathRoundHalfDown(halves) == halves \div 2

\* Math.round of a value given in halves (round half towards +infinity)
MathRound(halves) == (halves + 1) \div 2

Min(a, b) == IF a < b THEN a ELSE b

Max(a, b) == IF a > b THEN a ELSE b

ClampBelowOnly(score) == Max(1, score)

\* Math.min(5, Math.max(1, Math.round(score)))
Clamp(score) == Min(5, Max(1, score))

\* the recency bonus in halves; a NaN timestamp fails both comparisons
RecencyBonus(timestamp, clock) ==
    IF timestamp.kind # "num" THEN 0
    ELSE IF clock - timestamp.v < 6 * HourMs THEN 2
    ELSE IF clock - timestamp.v < 24 * HourMs THEN 1
    ELSE 0

\* the score is accumulated in halves: 1.5 per keyword is 3 halves
calculateNewsworthiness(item, kws, clock) ==
    LET title == MapLower(item.title)
        halves == 2
            + 3 * Cardinality(kws)
            + (IF Includes(<<item.source>>, "Mayor") THEN 2 ELSE 0)
            + (IF Includes(<<item.source>>, "City of New Orleans") THEN 1 ELSE 0)
            + (IF Includes(title, "breaking") \/ Includes(title, "emergency")
               THEN 4 ELSE 0)
            + (IF Includes(title, "budget") \/ Includes(title, "council")
               THEN 2 ELSE 0)
            + RecencyBonus(item.timestamp, clock)
        score == Clamp(MathRound(halves))
    IN  [score |-> score,
         level |-> IF score >= 4 THEN "high"
                   ELSE IF score >= 3 THEN "medium" ELSE "low"]

RECURSIVE RenderItems(_, _, _)
RenderItems(newsItems, active, clock) ==
    IF newsItems = <<>> THEN <<>>
    ELSE LET item == Head(newsItems)
             kws == findKeywords(item, active)
         IN  <<[id |-> item.id, keywords |-> kws,
                newsworthiness |-> calculateNewsworthiness(item, kws, clock)]>>
                \o RenderItems(Tail(newsItems), active, clock)

\* the content of #newsResults after displayNews(newsItems)
displayNews(newsItems, active, clock) == RenderItems(newsItems, active, clock)

-----------------------------------------------------------------------------
(* sendNotifications *)

\* changes.filter(change => change.type === 'NEW')
NewItems(found) == SelectSeq(found, LAMBDA change : change.type = "NEW")

Notification(title, tag) == [title |-> title, tag |-> tag]

sendNotificationsIgnoringSetting(enabled, found) ==
    IF Len(found) = 0 THEN <<>>
    ELSE IF Len(NewItems(found)) = 0 THEN <<>>
    ELSE IF Len(NewItems(found)) = 1
    THEN <<Notification("New NOLA News Item", "nola-news-single")>>
    ELSE <<Notification("Multiple New NOLA News Items",
                        "nola-news-multiple")>>

sendNotificationsCountingAll(enabled, found) ==
    IF ~enabled \/ Len(found) = 0 THEN <<>>
    ELSE IF Len(NewItems(found)) = 0 THEN <<>>
    ELSE IF Len(found) = 1
    THEN <<Notification("New NOLA News Item", "nola-news-single")>>
    ELSE <<Notification("Multiple New NOLA News Items",
                        "nola-news-multiple")>>

\* lines 179-203: the notifications the call raises
sendNotifications(enabled, found) ==
    IF ~enabled \/ Len(found) = 0 THEN <<>>
    ELSE IF Len(NewItems(found)) = 0 THEN <<>>
    ELSE IF Len(NewItems(found)) = 1
    THEN <<Notification("New NOLA News Item", "nola-news-single")>>
    ELSE <<Notification("Multiple New NOLA News Items",
                        "nola-news-multiple")>>

-----------------------------------------------------------------------------
(* localStorage buckets: JSON.stringify and JSON.parse *)

Absent == [kind |-> "absent"]

Stored(value) == [kind |-> "json", value |-> value]

\* JSON.stringify writes NaN as null
StringifyNumber(n) == IF n.kind = "NaN" THEN JSNull ELSE n

StringifyItem(item) ==
    [item EXCEPT !.timestamp = StringifyNumber(item.timestamp)]

RECURSIVE StringifyItems(_)
StringifyItems(items) ==
    IF items = <<>> THEN <<>>
    ELSE <<StringifyItem(Head(items))>> \o StringifyItems(Tail(items))

\* JSON.stringify({lastCheck, currentNews, previousNews})
StringifyData(clock, current, previous) ==
    [lastCheck |-> JSNum(clock),
     currentNews |-> StringifyItems(current),
     previousNews |-> StringifyItems(previous)]

\* JSON.parse(localStorage.getItem('nola_monitor_history') || '[]')
getHistory(storage) ==
    IF storage.history.kind = "json" THEN storage.history.value ELSE <<>>

HistoryCap == 10

UnshiftKeepingOldest(history, entry) ==
    LET longer == <<entry>> \o history
    IN  IF Len(longer) > HistoryCap THEN Tail(longer) ELSE longer

\* history.unshift(entry); if (history.length > 10) history.splice(10)
Unshift(history, entry) ==
    LET longer == <<entry>> \o history
    IN  IF Len(longer) > HistoryCap THEN SubSeq(longer, 1, HistoryCap)
        ELSE longer

addToHistoryCountingRecords(storage, newsCount, changesCount, clock) ==
    [storage EXCEPT !.history =
        Stored(Unshift(getHistory(storage),
                       [timestamp |-> clock, newsCount |-> newsCount,
                        changesCount |-> newsCount]))]

\* lines 630-645
addToHistory(storage, newsCount, changesCount, clock) ==
    [storage EXCEPT !.history =
        Stored(Unshift(getHistory(storage),
                       [timestamp |-> clock, newsCount |-> newsCount,
                        changesCount |-> changesCount]))]

saveToStorageCurrentOnly(storage, clock, current, previous) ==
    [storage EXCEPT !.data = Stored(StringifyData(clock, current, <<>>))]

\* saveToStorage: the data bucket written from the two generations
saveToStorage(storage, clock, current, previous) ==
    [storage EXCEPT !.data = Stored(StringifyData(clock, current, previous))]

-----------------------------------------------------------------------------
(* Inputs: the pages a relay may return for https://nola.gov/next/news/ *)

Anchor(href, text, container) ==
    [href |-> href, text |-> text, container |-> container]

BudgetTitle == <<"Council", " ", "Budget", " ", "vote">>

BudgetTitle2 == <<"Council", " ", "Budget", " ", "vote", " ", "delayed">>

PoliceTitle == <<"Police", " ", "update">>

LongLine == <<"The city council meets on Thursday to vote">>

\* loopback href, dated, with an excerpt line
AnchorBudget ==
    Anchor(<<"http://", "localhost", ":8000", "/", "next", "/", "news", "/",
             "budget-vote">>,
           <<" ">> \o BudgetTitle \o <<" ">>,
           <<BudgetTitle, LongLine, <<"August 7, 2025">>,
             <<"From City of New Orleans">>>>)

\* the same article after its title was edited
AnchorBudget2 ==
    Anchor(<<"http://", "localhost", ":8000", "/", "next", "/", "news", "/",
             "budget-vote">>,
           BudgetTitle2,
           <<BudgetTitle2, <<"August 7, 2025">>,
             <<"From City of New Orleans">>>>)

\* relative href, undated
AnchorPolice ==
    Anchor(<<"/", "next", "/", "news", "/", "police-update">>,
           PoliceTitle,
           <<PoliceTitle, <<"From NOPD News">>>>)

\* secondary domain, unparseable date
AnchorNopd ==
    Anchor(<<"https://", "nopdnews.com", "/", "post", "/", "arrest">>,
           <<"Arrest", " ", "made">>,
           <<<<"Arrest", " ", "made">>, <<"Mardi 99, 2025">>,
             <<"From NOPD News">>>>)

\* href ending in a slash (positional id), and a title of three characters
AnchorIndex ==
    Anchor(<<"/", "next", "/", "news", "/">>, <<"More", " ", "news">>,
           <<<<"More", " ", "news">>>>)

AnchorShort ==
    Anchor(<<"/", "next", "/", "news", "/", "faq">>, <<"FAQ">>, <<<<"FAQ">>>>)

\* an anchor the selector does not match
AnchorFragment == Anchor(<<"#top">>, <<"Back", " ", "to", " ", "top">>, <<>>)

Pages ==
    { <<>>,
      <<AnchorBudget, AnchorPolice>>,
      <<AnchorShort, AnchorBudget2, AnchorFragment, AnchorNopd, AnchorIndex>> }

StartNow == 5 * HourMs

TickMs == HourMs

-----------------------------------------------------------------------------
(* fetchRealNewsData: the relay loop *)

proxies ==
    <<"https://corsproxy.io/?", "https://cors-anywhere.herokuapp.com/",
      "https://api.codetabs.com/v1/proxy?quest=">>

IsLastProxyEarly(i) == i = Len(proxies) - 2

\* i === proxies.length - 1
IsLastProxy(i) == i = Len(proxies) - 1

NextProxySkipping(i) == i + 2

\* i++ of the for loop
NextProxy(i) == i + 1

Slots == 1..MaxCycles

IdleCycle == [pc |-> "idle", i |-> 0, requested |-> <<>>, outcomes |-> <<>>]

NoCall == [result |-> "none", requested |-> <<>>, outcomes |-> <<>>,
           from |-> -1]

\* the free invocation slot a new checkForUpdates call takes
FreeSlot(c) ==
    /\ cycles[c].pc = "idle"
    /\ \A d \in Slots : d < c => cycles[d].pc # "idle"

-----------------------------------------------------------------------------
(* The state after construction: constructor, init, loadFromStorage on an  *)
(* empty localStorage                                                      *)

EmptyStorage == [data |-> Absent, history |-> Absent, autocheck |-> Absent]

Init ==
    /\ activeKeywords = keywords
    /\ lastCheck = JSNull
    /\ previousNews = <<>>
    /\ currentNews = <<>>
    /\ autoCheckInterval = JSNull
    /\ autoCheckEnabled = FALSE
    /\ checkIntervalMinutes = 15
    /\ notificationsEnabled = FALSE
    /\ permission = "default"
    /\ notified = <<>>
    /\ localStorage = EmptyStorage
    /\ timers = {}
    /\ cycles = [c \in Slots |-> IdleCycle]
    /\ status = "idle"
    /\ btnDisabled = FALSE
    /\ changes = <<>>
    /\ lastMarkup = None
    /\ lastCall = NoCall
    /\ now = StartNow
    /\ checks = 0
    /\ callArgs = <<>>
    /\ callResult = None

generationVars == <<lastCheck, previousNews, currentNews, localStorage,
                    changes, notified, lastMarkup>>

schedulerVars == <<autoCheckInterval, autoCheckEnabled, checkIntervalMinutes,
                   timers>>

configVars == <<activeKeywords, notificationsEnabled, permission>>

callVars == <<callArgs, callResult>>

\* the readings of the clock
Clocks == {StartNow + k * TickMs : k \in 0..MaxTicks}

\* lines 347-354: parseNewsFromHTML(html) for each body a relay can deliver,
\* at each reading of the clock
ParsedPages ==
    [html \in Pages |->
        [clock \in Clocks |-> parseNewsFromHTML(html, clock)]]

-----------------------------------------------------------------------------
(* checkForUpdates *)

StartCheckStoringPrevious(c) ==
    /\ FreeSlot(c)
    /\ checks < MaxChecks
    /\ checks' = checks + 1
    /\ cycles' = [cycles EXCEPT ![c] =
                    [pc |-> "fetch", i |-> 0, requested |-> <<0>>,
                     outcomes |-> <<>>]]
    /\ btnDisabled' = TRUE
    /\ status' = "loading"
    /\ previousNews' = currentNews
    /\ UNCHANGED <<lastCheck, currentNews, localStorage, changes, notified,
                   lastMarkup, lastCall, schedulerVars, configVars,
                   callVars, now>>

\* lines 103-119 and 305-335: the button is disabled, the status shows the
\* spinner and the request to the first relay is issued
StartCheck(c) ==
    /\ FreeSlot(c)
    /\ checks < MaxChecks
    /\ checks' = checks + 1
    /\ cycles' = [cycles EXCEPT ![c] =
                    [pc |-> "fetch", i |-> 0, requested |-> <<0>>,
                     outcomes |-> <<>>]]
    /\ btnDisabled' = TRUE
    /\ status' = "loading"
    /\ UNCHANGED <<generationVars, schedulerVars, configVars, callVars, now,
                   lastCall>>

\* click on #checkNowBtn (a disabled button receives no click)
CheckNowClicked(c) ==
    /\ ~btnDisabled
    /\ StartCheck(c)

\* the callback of setInterval armed by startAutoCheck
TimerFires(c, t) ==
    /\ t \in timers
    /\ StartCheck(c)

ProxyFailedStartingOver(c) ==
    LET cy == cycles[c]
    IN  IF IsLastProxy(cy.i)
        THEN /\ cycles' = [cycles EXCEPT ![c] =
                    [pc |-> "fetch", i |-> 0, requested |-> <<0>>,
                     outcomes |-> <<>>]]
             /\ UNCHANGED <<status, btnDisabled, lastCall>>
        ELSE /\ cycles' = [cycles EXCEPT ![c] =
                    [cy EXCEPT !.pc = "fetch",
                               !.i = NextProxy(cy.i),
                               !.outcomes = Append(@, "failed"),
                               !.requested = Append(@, NextProxy(cy.i))]]
             /\ UNCHANGED <<status, btnDisabled, lastCall>>

\* lines 356-368 and 370-378, 154-165: relay i failed; the last relay's
\* failure is rethrown and ends the cycle with the error status, any other
\* failure issues the request to the next relay
ProxyFailed(c) ==
    LET cy == cycles[c]
    IN  IF IsLastProxy(cy.i)
        THEN /\ cycles' = [cycles EXCEPT ![c] = IdleCycle]
             /\ lastCall' = [result |-> "threw", requested |-> cy.requested,
                             outcomes |-> Append(cy.outcomes, "failed"),
                             from |-> -1]
             /\ status' = "error"
             /\ btnDisabled' = FALSE
        ELSE /\ cycles' = [cycles EXCEPT ![c] =
                    [cy EXCEPT !.pc = "fetch",
                               !.i = NextProxy(cy.i),
                               !.outcomes = Append(@, "failed"),
                               !.requested = Append(@, NextProxy(cy.i))]]
             /\ UNCHANGED <<status, btnDisabled, lastCall>>

\* await fetch(proxyUrl) rejects (network error, CORS)
FetchRejects(c) ==
    /\ cycles[c].pc = "fetch"
    /\ ProxyFailed(c)
    /\ UNCHANGED <<generationVars, schedulerVars, configVars, callVars, now,
                   checks>>

\* the response arrives with a non-ok status: throw new Error(`HTTP ...`)
ResponseNotOk(c) ==
    /\ cycles[c].pc = "fetch"
    /\ ProxyFailed(c)
    /\ UNCHANGED <<generationVars, schedulerVars, configVars, callVars, now,
                   checks>>

\* the response arrives with an ok status: await response.text()
ResponseOk(c) ==
    /\ cycles[c].pc = "fetch"
    /\ cycles' = [cycles EXCEPT ![c].pc = "text"]
    /\ UNCHANGED <<generationVars, schedulerVars, configVars, callVars, now,
                   checks, status, btnDisabled, lastCall>>

\* await response.text() rejects (body unusable)
TextRejects(c) ==
    /\ cycles[c].pc = "text"
    /\ ProxyFailed(c)
    /\ UNCHANGED <<generationVars, schedulerVars, configVars, callVars, now,
                   checks>>

AdvanceGenerationsSwapped(current, freshData) ==
    [previousNews |-> freshData, currentNews |-> freshData]

\* lines 126-127
AdvanceGenerations(current, freshData) ==
    [previousNews |-> current, currentNews |-> freshData]

\* lines 347-354 and 120-152, 162-165: the body arrives, is parsed, and the
\* continuation of checkForUpdates applies the result
TextResolves(c, html) ==
    /\ cycles[c].pc = "text"
    /\ LET freshData == ParsedPages[html][now]
           gen == AdvanceGenerations(currentNews, freshData)
           found == detectChanges(gen.previousNews, gen.currentNews)
       IN  /\ previousNews' = gen.previousNews
           /\ currentNews' = gen.currentNews
           /\ changes' = found
           /\ notified' = IF Len(found) > 0
                          THEN sendNotifications(notificationsEnabled, found)
                          ELSE <<>>
           /\ localStorage' =
                addToHistory(
                    saveToStorage(localStorage, now, gen.currentNews,
                                  gen.previousNews),
                    Len(freshData), Len(found), now)
           /\ lastCheck' = JSNum(now)
    /\ cycles' = [cycles EXCEPT ![c] = IdleCycle]
    /\ lastCall' = [result |-> "returned", requested |-> cycles[c].requested,
                    outcomes |-> Append(cycles[c].outcomes, "ok"),
                    from |-> cycles[c].i]
    /\ status' = "success"
    /\ btnDisabled' = FALSE
    /\ lastMarkup' = [kind |-> "html", html |-> html, cleared |-> FALSE,
                      repeated |-> /\ lastMarkup.kind = "html"
                                   /\ ~lastMarkup.cleared
                                   /\ lastMarkup.html = html]
    /\ UNCHANGED <<schedulerVars, configVars, callVars, now, checks>>

-----------------------------------------------------------------------------
(* The clock *)

Tick ==
    /\ now < StartNow + MaxTicks * TickMs
    /\ now' = now + TickMs
    /\ UNCHANGED <<generationVars, schedulerVars, configVars, callVars,
                   cycles, status, btnDisabled, checks, lastCall>>

-----------------------------------------------------------------------------
(* The scheduler *)

\* the handle setInterval returns: one no armed timer has
RECURSIVE FreshTimerId(_, _)
FreshTimerId(armed, n) ==
    IF \E t \in armed : t.id = n THEN FreshTimerId(armed, n + 1) ELSE n

\* clearInterval(this.autoCheckInterval)
ClearInterval(armed, handle) ==
    IF handle.kind = "num" THEN {t \in armed : t.id # handle.v} ELSE armed

startAutoCheckKeepingOld(st) ==
    LET armed == st.timers
        id == FreshTimerId(armed, 1)
    IN  [st EXCEPT
            !.timers = armed \cup
                {[id |-> id, ms |-> st.checkIntervalMinutes * 60 * 1000]},
            !.autoCheckInterval = JSNum(id),
            !.autocheck = Stored([enabled |-> TRUE,
                                  interval |-> st.checkIntervalMinutes])]

\* lines 243-269: the state startAutoCheck leaves, given the state it finds
startAutoCheck(st) ==
    LET armed == ClearInterval(st.timers, st.autoCheckInterval)
        id == FreshTimerId(armed, 1)
    IN  [st EXCEPT
            !.timers = armed \cup
                {[id |-> id, ms |-> st.checkIntervalMinutes * 60 * 1000]},
            !.autoCheckInterval = JSNum(id),
            !.autocheck = Stored([enabled |-> TRUE,
                                  interval |-> st.checkIntervalMinutes])]

stopAutoCheckKeepingTimer(st) ==
    [st EXCEPT
        !.autoCheckInterval = JSNull,
        !.autocheck = Stored([enabled |-> FALSE,
                              interval |-> st.checkIntervalMinutes])]

stopAutoCheckStaleHandle(st) ==
    [st EXCEPT
        !.timers = ClearInterval(st.timers, st.autoCheckInterval),
        !.autocheck = Stored([enabled |-> FALSE,
                              interval |-> st.checkIntervalMinutes])]

\* lines 271-287
stopAutoCheck(st) ==
    [st EXCEPT
        !.timers = ClearInterval(st.timers, st.autoCheckInterval),
        !.autoCheckInterval = JSNull,
        !.autocheck = Stored([enabled |-> FALSE,
                              interval |-> st.checkIntervalMinutes])]

\* the part of the state the scheduler operations read and write
SchedulerState ==
    [timers |-> timers, autoCheckInterval |-> autoCheckInterval,
     checkIntervalMinutes |-> checkIntervalMinutes,
     autocheck |-> localStorage.autocheck]

SetSchedulerState(st) ==
    /\ timers' = st.timers
    /\ autoCheckInterval' = st.autoCheckInterval
    /\ checkIntervalMinutes' = st.checkIntervalMinutes
    /\ localStorage' = [localStorage EXCEPT !.autocheck = st.autocheck]

\* lines 224-241: click on #autoCheckBtn
ToggleAutoCheck ==
    /\ SetSchedulerState(IF autoCheckEnabled
                         THEN stopAutoCheck(SchedulerState)
                         ELSE startAutoCheck(SchedulerState))
    /\ UNCHANGED <<autoCheckEnabled, lastCheck, previousNews, currentNews,
                   changes, notified, lastMarkup, lastCall, configVars,
                   callVars, cycles, status, btnDisabled, now, checks>>

ClearHistoryKeepingAutoCheck ==
    /\ LET st == IF autoCheckEnabled THEN stopAutoCheck(SchedulerState)
                 ELSE SchedulerState
       IN  /\ timers' = st.timers
           /\ autoCheckInterval' = st.autoCheckInterval
    /\ localStorage' = [EmptyStorage EXCEPT
                            !.autocheck = localStorage.autocheck]
    /\ previousNews' = <<>>
    /\ currentNews' = <<>>
    /\ lastCheck' = JSNull
    /\ autoCheckEnabled' = FALSE
    /\ status' = "idle"
    /\ lastMarkup' = IF lastMarkup.kind = "html"
                     THEN [lastMarkup EXCEPT !.cleared = TRUE]
                     ELSE lastMarkup
    /\ UNCHANGED <<checkIntervalMinutes, changes, notified, lastCall, configVars,
                   callVars, cycles, btnDisabled, now, checks>>

\* lines 676-717: click on #clearHistoryBtn, confirmed
ClearHistory ==
    /\ LET st == IF autoCheckEnabled THEN stopAutoCheck(SchedulerState)
                 ELSE SchedulerState
       IN  /\ timers' = st.timers
           /\ autoCheckInterval' = st.autoCheckInterval
    /\ localStorage' = EmptyStorage
    /\ previousNews' = <<>>
    /\ currentNews' = <<>>
    /\ lastCheck' = JSNull
    /\ autoCheckEnabled' = FALSE
    /\ status' = "idle"
    /\ lastMarkup' = IF lastMarkup.kind = "html"
                     THEN [lastMarkup EXCEPT !.cleared = TRUE]
                     ELSE lastMarkup
    /\ UNCHANGED <<checkIntervalMinutes, changes, notified, lastCall, configVars,
                   callVars, cycles, btnDisabled, now, checks>>

-----------------------------------------------------------------------------
(* Configuration: setCheckInterval, toggleKeyword *)

\* the options of #intervalSelect
Intervals == {5, 15}

\* lines 289-303: change on #intervalSelect
SetCheckInterval(minutes) ==
    /\ LET st == [SchedulerState EXCEPT !.checkIntervalMinutes = minutes]
       IN  SetSchedulerState(IF autoCheckEnabled
                             THEN startAutoCheck(stopAutoCheck(st))
                             ELSE st)
    /\ UNCHANGED <<autoCheckEnabled, lastCheck, previousNews, currentNews,
                   changes, notified, lastMarkup, lastCall, configVars,
                   callVars, cycles, status, btnDisabled, now, checks>>

\* the filter tags the model clicks
Tags == {"budget"}

\* lines 87-101: click on a .filter-tag
ToggleKeyword(keyword) ==
    /\ activeKeywords' = IF keyword \in activeKeywords
                         THEN activeKeywords \ {keyword}
                         ELSE activeKeywords \cup {keyword}
    /\ UNCHANGED <<generationVars, schedulerVars, notificationsEnabled,
                   permission,
                   callVars, cycles, status, btnDisabled, now, checks,
                   lastCall>>

-----------------------------------------------------------------------------
(* Page load: constructor, init, loadFromStorage *)

\* a bucket whose text JSON.parse rejects
Garbage == [kind |-> "garbage"]

\* a number that counts as false in x || fallback
Falsy(n) == n.kind \in {"null", "NaN"} \/ (n.kind = "num" /\ n.v = 0)

OrElse(n, fallback) == IF Falsy(n) THEN fallback ELSE n

\* lines 2-15: the fields the constructor sets, next to the automation
\* bucket it finds; the timers of the page before are gone
Constructed(storage) ==
    [lastCheck |-> JSNull, previousNews |-> <<>>, currentNews |-> <<>>,
     autoCheckInterval |-> JSNull, checkIntervalMinutes |-> 15,
     timers |-> {}, autocheck |-> storage.autocheck]

\* lines 732-735: JSON.parse(getItem('nola_monitor_data') || '{}') and the
\* three assignments
LoadData(st, data) ==
    IF data.kind = "absent"
    THEN [st EXCEPT !.lastCheck = JSNull, !.currentNews = <<>>,
                    !.previousNews = <<>>]
    ELSE [st EXCEPT !.lastCheck = OrElse(data.value.lastCheck, JSNull),
                    !.currentNews = data.value.currentNews,
                    !.previousNews = data.value.previousNews]

LoadAutoCheckDefaultInterval(st, autocheck) ==
    IF autocheck.kind = "json" /\ autocheck.value.enabled
    THEN startAutoCheck(st)
    ELSE st

\* lines 738-751: the automation bucket
LoadAutoCheck(st, autocheck) ==
    IF autocheck.kind = "json" /\ autocheck.value.enabled
    THEN startAutoCheck(
            [st EXCEPT !.checkIntervalMinutes =
                IF autocheck.value.interval = 0 THEN 15
                ELSE autocheck.value.interval])
    ELSE st

\* lines 731-754: the body of the try block: the fields it leaves and
\* whether it ended in an exception
LoadBody(st, storage) ==
    IF storage.data.kind = "garbage" THEN [st |-> st, threw |-> TRUE]
    ELSE LET loaded == LoadData(st, storage.data)
         IN  IF storage.autocheck.kind = "garbage"
             THEN [st |-> loaded, threw |-> TRUE]
             ELSE [st |-> LoadAutoCheck(loaded, storage.autocheck),
                   threw |-> FALSE]

loadFromStorageUncaught(st, storage) ==
    LET body == LoadBody(st, storage)
    IN  [st |-> body.st, raised |-> body.threw]

\* lines 730-759: try { ... } catch (error) { console.error(...) }
loadFromStorage(st, storage) ==
    LET body == LoadBody(st, storage)
    IN  [st |-> body.st, raised |-> FALSE]

\* new NolaNewsMonitor() on a page whose localStorage is storage: the state
\* of the page after DOMContentLoaded
PageLoaded(storage) ==
    LET loaded == loadFromStorage(Constructed(storage), storage)
    IN  /\ lastCheck' = loaded.st.lastCheck
        /\ previousNews' = loaded.st.previousNews
        /\ currentNews' = loaded.st.currentNews
        /\ autoCheckInterval' = loaded.st.autoCheckInterval
        /\ checkIntervalMinutes' = loaded.st.checkIntervalMinutes
        /\ timers' = loaded.st.timers
        /\ localStorage' = [storage EXCEPT !.autocheck = loaded.st.autocheck]
        /\ autoCheckEnabled' = FALSE
        /\ activeKeywords' = keywords
        /\ notificationsEnabled' = FALSE
        /\ cycles' = [c \in Slots |-> IdleCycle]
        /\ status' = "idle"
        /\ btnDisabled' = FALSE
        /\ changes' = <<>>
        /\ UNCHANGED <<permission, notified>>
        /\ callResult' = [kind |-> "monitor", raised |-> loaded.raised]

\* the page is reloaded: timers and pending requests of the old page are
\* dropped, localStorage stays
Reload ==
    /\ PageLoaded(localStorage)
    /\ UNCHANGED <<lastMarkup, lastCall, now, checks, callArgs>>

-----------------------------------------------------------------------------
(* The monitor *)

Next ==
    \/ \E c \in Slots : CheckNowClicked(c)
    \/ \E c \in Slots : \E t \in timers : TimerFires(c, t)
    \/ \E c \in Slots : FetchRejects(c)
    \/ \E c \in Slots : ResponseNotOk(c)
    \/ \E c \in Slots : ResponseOk(c)
    \/ \E c \in Slots : TextRejects(c)
    \/ \E c \in Slots : \E html \in Pages : TextResolves(c, html)
    \/ ToggleAutoCheck
    \/ ClearHistory
    \/ Tick

Spec == Init /\ [][Next]_vars

-----------------------------------------------------------------------------
(* Properties of the relay loop *)

AllFailed(outcomes) == \A k \in DOMAIN outcomes : outcomes[k] = "failed"

\* C1: fetchRealNewsData throws if and only if each of the three relays
\* failed; when a relay succeeds the call returns: a call that threw has
\* three failed attempts, a call that returned ends with a successful
\* attempt, and a call with three failed attempts has thrown.
C1_ThrowsIffAllRelaysFail ==
    /\ lastCall.result = "threw" =>
        /\ Len(lastCall.outcomes) = Len(proxies)
        /\ AllFailed(lastCall.outcomes)
    /\ lastCall.result = "returned" =>
        /\ lastCall.outcomes # <<>>
        /\ lastCall.outcomes[Len(lastCall.outcomes)] = "ok"
    /\ (Len(lastCall.outcomes) = Len(proxies) /\ AllFailed(lastCall.outcomes))
        => lastCall.result = "threw"
    /\ \A c \in Slots :
           \* a call still in flight has not had every relay fail
           ~(/\ Len(cycles[c].outcomes) = Len(proxies)
             /\ AllFailed(cycles[c].outcomes))

C1_Witness ==
    /\ lastCall.result = "threw"
    /\ Len(lastCall.outcomes) = 3

\* C2: within one call the relays are requested one after another in list
\* order, relay i+1 only after relay i failed; the result is parsed from the
\* body of the first relay that succeeded and no relay is requested after
\* it.
C2_RelaysSequentialInOrder ==
    /\ \A cy \in {cycles[c] : c \in Slots} \cup {lastCall} :
           LET n == Len(cy.requested)
           IN  /\ n <= Len(proxies)
               /\ \A k \in 1..n : cy.requested[k] = k - 1
               /\ Len(cy.outcomes) <= n
               /\ \A k \in 1..(n - 1) :
                      k \in DOMAIN cy.outcomes /\ cy.outcomes[k] = "failed"
    /\ \A c \in Slots :
           cycles[c].pc # "idle" =>
               Len(cycles[c].outcomes) = Len(cycles[c].requested) - 1
    /\ lastCall.result = "returned" =>
           LET n == Len(lastCall.requested)
           IN  /\ Len(lastCall.outcomes) = n
               /\ lastCall.outcomes[n] = "ok"
               /\ lastCall.from = lastCall.requested[n]

C2_Witness ==
    /\ lastCall.result = "returned"
    /\ lastCall.requested = <<0, 1, 2>>
    /\ lastCall.from = 2

-----------------------------------------------------------------------------
(* Properties of the generations *)

\* a step of invocation c other than the application of a result
FailingStep(c) ==
    /\ cycles'[c] # cycles[c]
    /\ ~(cycles[c].pc = "text" /\ status' = "success")

\* the step in which invocation c applies its result
ApplyStep(c) ==
    /\ cycles[c].pc = "text"
    /\ cycles'[c].pc = "idle"
    /\ status' = "success"

\* C3: a cycle whose fetch fails changes none of currentNews, previousNews,
\* the persisted snapshot bucket, lastCheck and the persisted history: no
\* step of a cycle other than applying a fetched result touches them.
C3_FailedCycleLeavesGenerations ==
    [][\A c \in Slots :
          FailingStep(c) =>
              UNCHANGED <<currentNews, previousNews, lastCheck,
                          localStorage.data, localStorage.history>>]_vars

C3_Witness ==
    /\ lastCall.result = "threw"
    /\ status = "error"
    /\ currentNews # <<>>
    /\ localStorage.data.kind = "json"
    /\ localStorage.history.kind = "json"

\* C4: a successful cycle makes previousNews the currentNews it found and
\* currentNews the records extracted from the retrieved markup, and the
\* snapshot bucket then holds the serialisation of exactly these two
\* generations.
C4_SuccessAdvancesGenerations ==
    [][\A c \in Slots :
          ApplyStep(c) =>
              /\ previousNews' = currentNews
              /\ lastMarkup'.kind = "html"
              /\ currentNews' = parseNewsFromHTML(lastMarkup'.html, now)
              /\ localStorage'.data.kind = "json"
              /\ DOMAIN localStorage'.data.value =
                    {"lastCheck", "currentNews", "previousNews"}
              /\ localStorage'.data.value.currentNews =
                    StringifyItems(currentNews')
              /\ localStorage'.data.value.previousNews =
                    StringifyItems(previousNews')]_vars

C4_Witness ==
    /\ lastCall.result = "returned"
    /\ status = "success"
    /\ previousNews # <<>>
    /\ currentNews # <<>>
    /\ currentNews # previousNews
    /\ localStorage.data.kind = "json"
    /\ localStorage.data.value.previousNews = StringifyItems(previousNews)

\* C19: a confirmed clearHistory leaves the snapshot, history and automation
\* buckets absent, currentNews and previousNews empty and lastCheck null,
\* whatever it found.
C19_ClearLeavesNothing ==
    [][ClearHistory =>
          /\ localStorage'.data = Absent
          /\ localStorage'.history = Absent
          /\ localStorage'.autocheck = Absent
          /\ currentNews' = <<>>
          /\ previousNews' = <<>>
          /\ lastCheck' = JSNull]_vars

C19_Witness ==
    /\ lastMarkup.kind = "html"
    /\ lastMarkup.cleared
    /\ lastMarkup.html # <<>>
    /\ timers # {}
    /\ localStorage = EmptyStorage
    /\ currentNews = <<>>
    /\ previousNews = <<>>
    /\ lastCheck = JSNull
    /\ status = "idle"

AllNew(events, items) ==
    /\ Len(events) = Len(items)
    /\ \A k \in DOMAIN events :
           events[k].type = "NEW" /\ events[k].item = items[k]

\* C8 as stated: whenever two consecutive successful cycles retrieved the
\* same markup, the second one detects no change.
C8_Original ==
    [][\A c \in Slots :
          (ApplyStep(c) /\ lastMarkup.kind = "html"
             /\ lastMarkup'.html = lastMarkup.html)
              => changes' = <<>>]_vars

\* C8 amended: whenever two consecutive successful cycles retrieved the same
\* markup and clearHistory was not confirmed between them, the second one
\* detects no change; a successful cycle that finds currentNews empty
\* detects one NEW event per extracted record.
C8_IdenticalMarkupNoChanges ==
    [][\A c \in Slots :
          ApplyStep(c) =>
              /\ (lastMarkup.kind = "html" /\ ~lastMarkup.cleared
                    /\ lastMarkup'.html = lastMarkup.html)
                  => changes' = <<>>
              /\ currentNews = <<>> => AllNew(changes', currentNews')]_vars

C8_Witness ==
    /\ lastMarkup.kind = "html"
    /\ lastMarkup.repeated
    /\ ~lastMarkup.cleared
    /\ lastMarkup.html # <<>>
    /\ currentNews # <<>>
    /\ currentNews # previousNews
    /\ changes = <<>>

-----------------------------------------------------------------------------
(* Direct calls of detectChanges on arbitrary generations *)

DetectItem(id, title, date, source, time) ==
    [id |-> <<id>>, title |-> title,
     url |-> <<"https://", "nola.gov", "/", "next", "/", "news", "/", id>>,
     date |-> date, source |-> source,
     excerpt |-> <<"No description available">>, timestamp |-> time]

\* two records share the id budget-vote and differ in every other field the
\* extraction can vary for one url
DetectItems ==
    { DetectItem("budget-vote", BudgetTitle, "August 7, 2025",
                 "City of New Orleans", JSNum(0)),
      [DetectItem("budget-vote", BudgetTitle2, "Recent", "NOPD News",
                  JSNum(StartNow))
          EXCEPT !.url = <<"https://", "nopdnews.com", "/", "budget-vote">>,
                 !.excerpt = LongLine],
      DetectItem("police-update", PoliceTitle, "Recent", "NOPD News",
                 JSNum(StartNow)),
      DetectItem("arrest", <<"Arrest", " ", "made">>, "Mardi 99, 2025",
                 "NOPD News", JSNaN) }

RECURSIVE SeqsUpTo(_, _)
SeqsUpTo(S, n) ==
    IF n = 0 THEN {<<>>}
    ELSE LET shorter == SeqsUpTo(S, n - 1)
         IN  shorter \cup {Append(q, x) : q \in shorter, x \in S}

InitDetect ==
    /\ activeKeywords = keywords
    /\ lastCheck = JSNull
    /\ previousNews \in SeqsUpTo(DetectItems, MaxLen)
    /\ currentNews \in SeqsUpTo(DetectItems, MaxLen)
    /\ autoCheckInterval = JSNull
    /\ autoCheckEnabled = FALSE
    /\ checkIntervalMinutes = 15
    /\ notificationsEnabled = FALSE
    /\ permission = "default"
    /\ notified = <<>>
    /\ localStorage = EmptyStorage
    /\ timers = {}
    /\ cycles = [c \in Slots |-> IdleCycle]
    /\ status = "idle"
    /\ btnDisabled = FALSE
    /\ changes = <<>>
    /\ lastMarkup = None
    /\ lastCall = NoCall
    /\ now = StartNow
    /\ checks = 0
    /\ callArgs = <<>>
    /\ callResult = None

\* this.detectChanges()
DetectChangesCall ==
    /\ callResult = None
    /\ callResult' = [kind |-> "changes",
                      value |-> detectChanges(previousNews, currentNews)]
    /\ UNCHANGED <<generationVars, schedulerVars, configVars, callArgs,
                   cycles, status, btnDisabled, now, checks, lastCall>>

NextDetect == DetectChangesCall

SpecDetect == InitDetect /\ [][NextDetect]_vars

Detected == callResult.kind = "changes"

\* positions of list holding the record r
Positions(list, r) == {k \in DOMAIN list : list[k] = r}

\* positions of events holding an event of this type for the record r
EventsFor(events, type, r) ==
    {k \in DOMAIN events : events[k].type = type /\ events[k].item = r}

IdOccurs(id, list) == \E k \in DOMAIN list : list[k].id = id

\* C5: detectChanges returns exactly one NEW event for each record of
\* current whose id occurs nowhere in previous, exactly one REMOVED event
\* for each record of previous whose id occurs nowhere in current, and
\* nothing else.
C5_DetectPartition ==
    Detected =>
        LET events == callResult.value
        IN  /\ \A k \in DOMAIN events : events[k].type \in {"NEW", "REMOVED"}
            /\ \A r \in DetectItems :
                 /\ Cardinality(EventsFor(events, "NEW", r)) =
                       IF IdOccurs(r.id, previousNews) THEN 0
                       ELSE Cardinality(Positions(currentNews, r))
                 /\ Cardinality(EventsFor(events, "REMOVED", r)) =
                       IF IdOccurs(r.id, currentNews) THEN 0
                       ELSE Cardinality(Positions(previousNews, r))

C5_Witness ==
    /\ Detected
    /\ \E k \in DOMAIN callResult.value : callResult.value[k].type = "NEW"
    /\ \E k \in DOMAIN callResult.value : callResult.value[k].type = "REMOVED"
    /\ \E k \in DOMAIN currentNews : IdOccurs(currentNews[k].id, previousNews)

\* C6: detectChanges of a generation against itself returns no event, of two
\* empty generations returns no event, and of an empty previous against
\* current returns one NEW event per record of current and nothing else.
C6_DetectSpecialCases ==
    Detected =>
        LET events == callResult.value
        IN  /\ previousNews = currentNews => events = <<>>
            /\ (previousNews = <<>> /\ currentNews = <<>>) => events = <<>>
            /\ previousNews = <<>> =>
                 /\ Len(events) = Len(currentNews)
                 /\ \A k \in DOMAIN events : events[k].type = "NEW"

C6_Witness ==
    /\ Detected
    /\ previousNews = currentNews
    /\ Len(currentNews) >= 2
    /\ callResult.value = <<>>

\* C7: a record of current whose id occurs in previous produces no event,
\* whatever its other fields: no NEW event carries an id of previous and no
\* REMOVED event carries an id of current.
C7_DetectByIdOnly ==
    Detected =>
        \A k \in DOMAIN callResult.value :
            LET e == callResult.value[k]
            IN  /\ e.type = "NEW" => ~IdOccurs(e.item.id, previousNews)
                /\ e.type = "REMOVED" => ~IdOccurs(e.item.id, currentNews)

C7_Witness ==
    /\ Detected
    /\ \E k \in DOMAIN currentNews, j \in DOMAIN previousNews :
          /\ currentNews[k].id = previousNews[j].id
          /\ currentNews[k].title # previousNews[j].title
          /\ currentNews[k].url # previousNews[j].url
          /\ currentNews[k].timestamp # previousNews[j].timestamp
    /\ \A k \in DOMAIN currentNews, j \in DOMAIN previousNews :
          currentNews[k] # previousNews[j]
    /\ callResult.value = <<>>


\* C31: the events are the NEW events of the records of current whose id
\* is not in previous, in their order in current, followed by the REMOVED
\* events of the records of previous whose id is not in current, in their
\* order in previous.
C31_NewThenRemovedInOrder ==
    Detected =>
        LET events == callResult.value
            added == SelectSeq(currentNews,
                        LAMBDA r : ~IdOccurs(r.id, previousNews))
            removed == SelectSeq(previousNews,
                          LAMBDA r : ~IdOccurs(r.id, currentNews))
        IN  /\ Len(events) = Len(added) + Len(removed)
            /\ \A k \in DOMAIN added :
                  events[k] = [type |-> "NEW", item |-> added[k]]
            /\ \A k \in DOMAIN removed :
                  events[Len(added) + k] =
                      [type |-> "REMOVED", item |-> removed[k]]

\* two different records were added and one removed
C31_Witness ==
    /\ Detected
    /\ Len(callResult.value) = 3
    /\ callResult.value[1].type = "NEW"
    /\ callResult.value[2].type = "NEW"
    /\ callResult.value[1].item # callResult.value[2].item
    /\ callResult.value[3].type = "REMOVED"
-----------------------------------------------------------------------------
(* Direct calls of calculateNewsworthiness on arbitrary arguments *)

ScoreSources ==
    {"NOPD News", "City of New Orleans", "Office of the Mayor",
     "Mayor, City of New Orleans"}

ScoreTitles ==
    { PoliceTitle, BudgetTitle,
      <<"BREAKING:", " ", "Mayor", " ", "statement">>,
      <<"Emergency", " ", "Council", " ", "session">>,
      <<"BREAKING:", " ", "Emergency", " ", "Budget", " ", "Council">> }

\* ages just inside and outside the 6 hour and 24 hour brackets, a
\* timestamp in the future, NaN, and the null a stored NaN is read back as
ScoreTimestamps ==
    { JSNaN, JSNull, JSNum(StartNow + HourMs), JSNum(StartNow),
      JSNum(StartNow - 6 * HourMs + 1), JSNum(StartNow - 6 * HourMs),
      JSNum(StartNow - 24 * HourMs + 1), JSNum(StartNow - 24 * HourMs) }

ScoreItems ==
    { [DetectItem("x", title, "Recent", source, time)
          EXCEPT !.excerpt = <<"No description available">>] :
        title \in ScoreTitles, source \in ScoreSources,
        time \in ScoreTimestamps }

InitScore ==
    /\ activeKeywords = keywords
    /\ lastCheck = JSNull
    /\ previousNews = <<>>
    /\ currentNews = <<>>
    /\ autoCheckInterval = JSNull
    /\ autoCheckEnabled = FALSE
    /\ checkIntervalMinutes = 15
    /\ notificationsEnabled = FALSE
    /\ permission = "default"
    /\ notified = <<>>
    /\ localStorage = EmptyStorage
    /\ timers = {}
    /\ cycles = [c \in Slots |-> IdleCycle]
    /\ status = "idle"
    /\ btnDisabled = FALSE
    /\ changes = <<>>
    /\ lastMarkup = None
    /\ lastCall = NoCall
    /\ now = StartNow
    /\ checks = 0
    /\ callArgs \in {<<[item |-> item, keywords |-> kws]>> :
                        item \in ScoreItems, kws \in SUBSET keywords}
    /\ callResult = None

\* this.calculateNewsworthiness(item, keywords)
CalculateNewsworthinessCall ==
    /\ callResult = None
    /\ callResult' =
          [kind |-> "newsworthiness",
           value |-> calculateNewsworthiness(callArgs[1].item,
                                             callArgs[1].keywords, now)]
    /\ UNCHANGED <<generationVars, schedulerVars, configVars, callArgs,
                   cycles, status, btnDisabled, now, checks, lastCall>>

NextScore == CalculateNewsworthinessCall

SpecScore == InitScore /\ [][NextScore]_vars

Scored == callResult.kind = "newsworthiness"

\* C9: the score is an integer from 1 to 5, and for the same record and
\* clock no keyword list at least as long yields a smaller score.
C9_ScoreBoundedMonotonic ==
    Scored =>
        /\ callResult.value.score \in 1..5
        /\ \A more \in SUBSET keywords :
             Cardinality(more) >= Cardinality(callArgs[1].keywords) =>
                 calculateNewsworthiness(callArgs[1].item, more, now).score
                    >= callResult.value.score

C9_Witness ==
    /\ Scored
    /\ Cardinality(callArgs[1].keywords) = 1
    /\ callArgs[1].item.title = PoliceTitle
    /\ callArgs[1].item.source = "NOPD News"
    /\ callArgs[1].item.timestamp = JSNum(StartNow - 24 * HourMs)
    /\ callResult.value.score = 3


\* the bonuses of the scoring table, in halves, read off the record itself
SourceBonus(source) ==
    (IF source \in {"Office of the Mayor", "Mayor, City of New Orleans"}
     THEN 2 ELSE 0)
    + (IF source \in {"City of New Orleans", "Mayor, City of New Orleans"}
       THEN 1 ELSE 0)

TitleBonus(title) ==
    (IF \E k \in DOMAIN title : title[k] \in {"BREAKING:", "Emergency"}
     THEN 4 ELSE 0)
    + (IF \E k \in DOMAIN title : title[k] \in {"Budget", "Council"}
       THEN 2 ELSE 0)

\* under 6 hours, under 24 hours, older (or no numeric age at all)
AgeBonus(timestamp, clock) ==
    IF timestamp.kind = "num" /\ clock - timestamp.v < 6 * HourMs THEN 2
    ELSE IF timestamp.kind = "num" /\ clock - timestamp.v < 24 * HourMs
    THEN 1
    ELSE 0

\* the integer nearest to halves / 2, a half going up
NearestInteger(halves) ==
    IF halves % 2 = 0 THEN halves \div 2 ELSE (halves + 1) \div 2

-----------------------------------------------------------------------------
(* Direct calls of addToHistory *)

\* this.addToHistory(newsCount, changesCount)
AddToHistoryCall(newsCount, changesCount) ==
    /\ Len(callArgs) < MaxCalls
    /\ localStorage' = addToHistory(localStorage, newsCount, changesCount, now)
    /\ callArgs' = Append(callArgs, [timestamp |-> now,
                                     newsCount |-> newsCount,
                                     changesCount |-> changesCount])
    /\ UNCHANGED <<lastCheck, previousNews, currentNews, changes, notified,
                   lastMarkup, lastCall, schedulerVars, configVars,
                   callResult, cycles, status, btnDisabled, now, checks>>

NextHistory ==
    \/ \E counts \in {<<0, 0>>, <<2, 1>>} :
          AddToHistoryCall(counts[1], counts[2])
    \/ Tick

SpecHistory == Init /\ [][NextHistory]_vars

\* C10: after n calls of addToHistory the history bucket holds the
\* min(n, 10) most recently appended entries, newest first.
C10_HistoryCap ==
    LET n == Len(callArgs)
        history == getHistory(localStorage)
    IN  /\ Len(history) = IF n < 10 THEN n ELSE 10
        /\ \A k \in DOMAIN history : history[k] = callArgs[n - k + 1]

C10_Witness ==
    /\ Len(callArgs) = 11
    /\ Len(getHistory(localStorage)) = 10
    /\ callArgs[1] # callArgs[2]

-----------------------------------------------------------------------------
(* The page with every control and reloads *)

NextPage ==
    \/ Next
    \/ \E minutes \in Intervals : SetCheckInterval(minutes)
    \/ \E keyword \in Tags : ToggleKeyword(keyword)
    \/ Reload

SpecPage == Init /\ [][NextPage]_vars

\* C12: a reload restores the currentNews and previousNews the monitor held
\* before it, so that the first cycle after the reload compares against the
\* generation that was current before it.
C12_GenerationsPersist ==
    [][Reload => /\ currentNews' = currentNews
                 /\ previousNews' = previousNews]_vars

\* C13: toggleAutoCheck arms a timer when none is armed and disarms the
\* timer when one is armed.
C13_ToggleToggles ==
    [][ToggleAutoCheck => /\ timers = {} => timers' # {}
                          /\ timers # {} => timers' = {}]_vars

\* C14: setCheckInterval(m) while a timer is armed leaves exactly one timer
\* armed, with period m minutes.
C14_IntervalRestartsTimer ==
    [][\A minutes \in Intervals :
          (SetCheckInterval(minutes) /\ timers # {}) =>
              /\ timers' # {}
              /\ \A t \in timers' : t.ms = minutes * 60 * 1000]_vars

\* C18: a reload restores the active keywords and the check interval the
\* user had set.
C18_ConfigurationPersists ==
    [][Reload => /\ activeKeywords' = activeKeywords
                 /\ checkIntervalMinutes' = checkIntervalMinutes]_vars

\* C20: after a confirmed clearHistory no auto-check timer is armed.
C20_ClearStopsAutoCheck ==
    [][ClearHistory => timers' = {}]_vars

-----------------------------------------------------------------------------
(* Direct calls of startAutoCheck and stopAutoCheck *)

\* monitor.startAutoCheck()
StartAutoCheckCall ==
    /\ SetSchedulerState(startAutoCheck(SchedulerState))
    /\ UNCHANGED <<autoCheckEnabled, lastCheck, previousNews, currentNews,
                   changes, notified, lastMarkup, lastCall, configVars,
                   callVars, cycles, status, btnDisabled, now, checks>>

\* monitor.stopAutoCheck()
StopAutoCheckCall ==
    /\ SetSchedulerState(stopAutoCheck(SchedulerState))
    /\ UNCHANGED <<autoCheckEnabled, lastCheck, previousNews, currentNews,
                   changes, notified, lastMarkup, lastCall, configVars,
                   callVars, cycles, status, btnDisabled, now, checks>>

NextScheduler ==
    \/ StartAutoCheckCall
    \/ StopAutoCheckCall
    \/ \E minutes \in Intervals : SetCheckInterval(minutes)
    \/ \E c \in Slots : \E t \in timers : TimerFires(c, t)
    \/ \E c \in Slots : FetchRejects(c)
    \/ \E c \in Slots : ResponseNotOk(c)
    \/ \E c \in Slots : ResponseOk(c)
    \/ \E c \in Slots : TextRejects(c)
    \/ Reload

SpecScheduler == Init /\ [][NextScheduler]_vars

StoppedBucket ==
    Stored([enabled |-> FALSE, interval |-> checkIntervalMinutes])

\* C15: stopAutoCheck leaves no timer armed, a timer gets armed only by
\* startAutoCheck (called directly or by the page load), and a
\* timer-triggered cycle starts only while the scheduler holds a timer
\* handle.
C15_StoppedSchedulerSilent ==
    [][/\ StopAutoCheckCall => timers' = {}
       /\ (timers = {} /\ timers' # {}) => (StartAutoCheckCall \/ Reload)
       /\ (\E c \in Slots : \E t \in timers : TimerFires(c, t))
             => autoCheckInterval # JSNull]_vars

C15_Witness ==
    /\ timers = {}
    /\ autoCheckInterval = JSNull
    /\ localStorage.autocheck = StoppedBucket
    /\ checks > 0

\* C16: stopAutoCheck leaves the scheduler stopped with no timer armed,
\* also when it was stopped already, and a second stopAutoCheck leaves the
\* state the first one left.
C16_StopIdempotent ==
    LET once == stopAutoCheck(SchedulerState)
        twice == stopAutoCheck(once)
    IN  /\ once.timers = {}
        /\ once.autoCheckInterval = JSNull
        /\ once.autocheck = StoppedBucket
        /\ twice = once

C16_Witness ==
    /\ timers = {}
    /\ autoCheckInterval = JSNull
    /\ localStorage.autocheck = StoppedBucket
    /\ stopAutoCheck(SchedulerState) = SchedulerState
    /\ checkIntervalMinutes # 15

\* the timer a page load arms for the automation bucket it finds
RestartTimers(autocheck) ==
    IF autocheck.kind = "json" /\ autocheck.value.enabled
    THEN {[id |-> 1, ms |-> autocheck.value.interval * 60 * 1000]}
    ELSE {}

\* C17: startAutoCheck writes {enabled: true, interval: m} and
\* stopAutoCheck {enabled: false, interval: m} for the interval m in force,
\* and a page load arms one timer of period m for the former and none for
\* the latter.
C17_AutomationSavedAndRestored ==
    [][/\ StartAutoCheckCall =>
            localStorage'.autocheck =
                Stored([enabled |-> TRUE, interval |-> checkIntervalMinutes])
       /\ StopAutoCheckCall => localStorage'.autocheck = StoppedBucket
       /\ loadFromStorage(Constructed(localStorage), localStorage).st.timers
             = RestartTimers(localStorage.autocheck)
       /\ Reload => /\ timers' = RestartTimers(localStorage.autocheck)
                    /\ timers' # {} =>
                          checkIntervalMinutes' =
                              localStorage'.autocheck.value.interval]_vars

C17_Witness ==
    /\ callResult.kind = "monitor"
    /\ localStorage.autocheck = Stored([enabled |-> TRUE, interval |-> 5])
    /\ timers = {[id |-> 1, ms |-> 300000]}
    /\ checkIntervalMinutes = 5

-----------------------------------------------------------------------------
(* Page loads on arbitrary bucket contents *)

HistoryEntry(clock, newsCount, changesCount) ==
    [timestamp |-> clock, newsCount |-> newsCount,
     changesCount |-> changesCount]

\* what the data bucket may hold when the page is opened
DataBuckets ==
    {Absent, Garbage} \cup
    {Stored(StringifyData(StartNow - HourMs, ParsedPages[current][StartNow],
                          ParsedPages[previous][StartNow])) :
        current \in Pages, previous \in Pages}

HistoryBuckets ==
    {Absent, Garbage, Stored(<<>>),
     Stored(<<HistoryEntry(StartNow - HourMs, 2, 1)>>)}

AutoCheckBuckets ==
    {Absent, Garbage} \cup
    {Stored([enabled |-> enabled, interval |-> minutes]) :
        enabled \in BOOLEAN, minutes \in Intervals}

\* the page before DOMContentLoaded, on any bucket contents
InitLoad ==
    /\ activeKeywords = keywords
    /\ lastCheck = JSNull
    /\ previousNews = <<>>
    /\ currentNews = <<>>
    /\ autoCheckInterval = JSNull
    /\ autoCheckEnabled = FALSE
    /\ checkIntervalMinutes = 15
    /\ notificationsEnabled = FALSE
    /\ permission = "default"
    /\ notified = <<>>
    /\ localStorage \in [data : DataBuckets, history : HistoryBuckets,
                         autocheck : AutoCheckBuckets]
    /\ timers = {}
    /\ cycles = [c \in Slots |-> IdleCycle]
    /\ status = "idle"
    /\ btnDisabled = FALSE
    /\ changes = <<>>
    /\ lastMarkup = None
    /\ lastCall = NoCall
    /\ now = StartNow
    /\ checks = 0
    /\ callArgs = <<>>
    /\ callResult = None

\* DOMContentLoaded: new NolaNewsMonitor()
NewMonitor ==
    /\ callResult = None
    /\ PageLoaded(localStorage)
    /\ UNCHANGED <<lastMarkup, lastCall, now, checks, callArgs>>

\* monitor.getHistory()
GetHistoryCall ==
    /\ callResult.kind = "monitor"
    /\ callArgs = <<>>
    /\ callArgs' = <<"getHistory">>
    /\ callResult' = [kind |-> "history", value |-> getHistory(localStorage)]
    /\ UNCHANGED <<generationVars, schedulerVars, configVars, cycles, status,
                   btnDisabled, now, checks, lastCall>>

NextLoad == NewMonitor \/ GetHistoryCall

SpecLoad == InitLoad /\ [][NextLoad]_vars

Unusable(bucket) == bucket.kind \in {"absent", "garbage"}

\* C11: no page load raises; when the data bucket is missing or unparseable
\* the loaded monitor holds currentNews = [], previousNews = [] and
\* lastCheck = null, and when the history bucket is missing or unparseable
\* getHistory returns [].
C11_LoadNeverRaises ==
    /\ callResult.kind = "monitor" =>
        /\ ~callResult.raised
        /\ Unusable(localStorage.data) =>
            /\ currentNews = <<>>
            /\ previousNews = <<>>
            /\ lastCheck = JSNull
    /\ callResult.kind = "history" =>
        (Unusable(localStorage.history) => callResult.value = <<>>)

C11_Witness ==
    /\ callResult.kind = "history"
    /\ localStorage.data = Garbage
    /\ localStorage.history = Garbage
    /\ localStorage.autocheck.kind = "json"
    /\ timers = {}
    /\ currentNews = <<>>


\* C34: the buckets load independently: with a valid automation bucket
\* whose enabled is true the loaded page has one timer armed with the stored
\* interval, whatever the data bucket holds, and with a valid data bucket
\* the loaded page holds its generations, whatever the automation bucket
\* holds.
C34_BucketsLoadIndependently ==
    callResult.kind = "monitor" =>
        /\ (/\ localStorage.autocheck.kind = "json"
            /\ localStorage.autocheck.value.enabled)
           => /\ Cardinality(timers) = 1
              /\ autoCheckInterval # JSNull
              /\ checkIntervalMinutes = localStorage.autocheck.value.interval
        /\ localStorage.data.kind = "json"
           => /\ currentNews = localStorage.data.value.currentNews
              /\ previousNews = localStorage.data.value.previousNews
-----------------------------------------------------------------------------
(* Direct calls of parseNewsFromHTML on arbitrary pages *)

\* loopback href without a scheme
AnchorBareLoopback ==
    Anchor(<<"localhost", ":8000", "/", "next", "/", "news", "/", "road-work">>,
           <<"Road", " ", "work">>, <<<<"Road", " ", "work">>>>)

\* relative href with a path segment that contains "localhost"
AnchorGuide ==
    Anchor(<<"/", "next", "/", "news", "/", "localhost-guide">>,
           <<"Developer", " ", "guide">>, <<<<"Developer", " ", "guide">>>>)

\* absolute href on another host, and a title of four characters
AnchorForeign ==
    Anchor(<<"https://", "example.com", "/", "story">>, <<"News">>,
           <<<<"News">>>>)

\* the canonical host with the article the secondary domain also carries
AnchorArrest ==
    Anchor(<<"https://", "nola.gov", "/", "next", "/", "news", "/", "arrest">>,
           <<" ", "Arrest", " ", "made">>, <<<<"Arrest", " ", "made">>>>)

ParseAnchors ==
    {AnchorBudget, AnchorPolice, AnchorNopd, AnchorIndex, AnchorShort,
     AnchorFragment, AnchorBareLoopback, AnchorGuide, AnchorForeign,
     AnchorArrest}

InitParse ==
    /\ activeKeywords = keywords
    /\ lastCheck = JSNull
    /\ previousNews = <<>>
    /\ currentNews = <<>>
    /\ autoCheckInterval = JSNull
    /\ autoCheckEnabled = FALSE
    /\ checkIntervalMinutes = 15
    /\ notificationsEnabled = FALSE
    /\ permission = "default"
    /\ notified = <<>>
    /\ localStorage = EmptyStorage
    /\ timers = {}
    /\ cycles = [c \in Slots |-> IdleCycle]
    /\ status = "idle"
    /\ btnDisabled = FALSE
    /\ changes = <<>>
    /\ lastMarkup = None
    /\ lastCall = NoCall
    /\ now = StartNow
    /\ checks = 0
    /\ callArgs \in {<<html>> : html \in SeqsUpTo(ParseAnchors, MaxLen)}
    /\ callResult = None

\* this.parseNewsFromHTML(html)
ParseNewsFromHTMLCall ==
    /\ callResult = None
    /\ callResult' = [kind |-> "items",
                      value |-> parseNewsFromHTML(callArgs[1], now)]
    /\ UNCHANGED <<generationVars, schedulerVars, configVars, callArgs,
                   cycles, status, btnDisabled, now, checks, lastCall>>

NextParse == ParseNewsFromHTMLCall

SpecParse == InitParse /\ [][NextParse]_vars

Parsed == callResult.kind = "items"

\* linkElement.textContent.trim() has four characters or more
LongTitle(a) == TextLength(Trim(a.text)) > 3

\* the anchors of the page a record is due for, in document order
Emitting(html) == SelectSeq(QuerySelectorAll(html), LongTitle)

\* C21: no two records of one parseNewsFromHTML result have the same id.
C21_IdsUnique ==
    Parsed =>
        \A i, j \in DOMAIN callResult.value :
            i # j => callResult.value[i].id # callResult.value[j].id

AbsoluteOnKnownHost(url) ==
    /\ Len(url) >= 2
    /\ StartsWithHttp(url[1])
    /\ url[2] \in {"nola.gov", "nopdnews.com"}

\* C22: every record of a parseNewsFromHTML result has an absolute url on
\* nola.gov or nopdnews.com.
C22_UrlsAbsolute ==
    Parsed =>
        \A k \in DOMAIN callResult.value :
            AbsoluteOnKnownHost(callResult.value[k].url)

\* the href names the host localhost, with or without scheme and port
Loopback(href) ==
    \/ href # <<>> /\ href[1] = "localhost"
    \/ Len(href) >= 2 /\ StartsWithHttp(href[1]) /\ href[2] = "localhost"

\* the path of a loopback href: what follows scheme, host and port
LoopbackPath(href) ==
    LET afterHost == IF href[1] = "localhost" THEN Tail(href)
                     ELSE Tail(Tail(href))
    IN  IF afterHost # <<>> /\ IsPort(Head(afterHost)) THEN Tail(afterHost)
        ELSE afterHost

\* C23: the url of a record whose href names a loopback host contains no
\* "localhost" and is https://nola.gov followed by the path of the href.
C23_LoopbackRewritten ==
    Parsed =>
        \A k \in DOMAIN callResult.value :
            LET href == Emitting(callArgs[1])[k].href
                url == callResult.value[k].url
            IN  Loopback(href) =>
                    /\ \A n \in DOMAIN url : ~IncludesLocalhost(url[n])
                    /\ url = <<"https://", "nola.gov">> \o LoopbackPath(href)

\* C24: normalizing the url of an emitted record again returns it unchanged.
C24_NormalizeIdempotent ==
    Parsed =>
        \A k \in DOMAIN callResult.value :
            NormalizeUrl(callResult.value[k].url) = callResult.value[k].url

\* C25: the result holds one record for every matched anchor whose trimmed
\* title has four characters or more, in document order, and no record
\* with a title of three characters or fewer.
C25_TitleFilter ==
    Parsed =>
        LET due == Emitting(callArgs[1])
        IN  /\ Len(callResult.value) = Len(due)
            /\ \A k \in DOMAIN callResult.value :
                   /\ callResult.value[k].title = Trim(due[k].text)
                   /\ TextLength(callResult.value[k].title) >= 4

C25_Witness ==
    /\ Parsed
    /\ callArgs[1] = <<AnchorShort, AnchorForeign, AnchorArrest>>
    /\ Len(callResult.value) = 2
    /\ callResult.value[1].title = <<"News">>

\* the record carries no date, or one that new Date() cannot parse
Undated(item) == item.date = "Recent" \/ DateGetTime(item.date).kind = "NaN"

\* C29: records without a parseable date carry numeric timestamps that
\* strictly decrease in document order.
C29_FallbackTimestamps ==
    Parsed =>
        \A i, j \in DOMAIN callResult.value :
            LET a == callResult.value[i]
                b == callResult.value[j]
            IN  (i < j /\ Undated(a) /\ Undated(b)) =>
                    /\ a.timestamp.kind = "num"
                    /\ b.timestamp.kind = "num"
                    /\ a.timestamp.v > b.timestamp.v

-----------------------------------------------------------------------------
(* Desktop notifications: the cycles of a page whose Notification.permission
   is any of the three values, with requestNotificationPermission as a call
   on the instance *)

NotificationPermissions == {"default", "granted", "denied"}

InitAlerts ==
    /\ activeKeywords = keywords
    /\ lastCheck = JSNull
    /\ previousNews = <<>>
    /\ currentNews = <<>>
    /\ autoCheckInterval = JSNull
    /\ autoCheckEnabled = FALSE
    /\ checkIntervalMinutes = 15
    /\ notificationsEnabled = FALSE
    /\ permission \in NotificationPermissions
    /\ notified = <<>>
    /\ localStorage = EmptyStorage
    /\ timers = {}
    /\ cycles = [c \in Slots |-> IdleCycle]
    /\ status = "idle"
    /\ btnDisabled = FALSE
    /\ changes = <<>>
    /\ lastMarkup = None
    /\ lastCall = NoCall
    /\ now = StartNow
    /\ checks = 0
    /\ callArgs = <<>>
    /\ callResult = None

\* lines 168-177, with the user's answer to the prompt of
\* Notification.requestPermission()
requestNotificationPermission(answer) ==
    IF permission = "default"
    THEN /\ permission' = answer
         /\ notificationsEnabled' = (answer = "granted")
    ELSE /\ notificationsEnabled' = (permission = "granted")
         /\ UNCHANGED permission

\* monitor.requestNotificationPermission()
RequestNotificationPermissionCall(answer) ==
    /\ requestNotificationPermission(answer)
    /\ UNCHANGED <<generationVars, schedulerVars, activeKeywords, callVars,
                   cycles, status, btnDisabled, now, checks, lastCall>>

\* the manual cycles of the page
NextCycle ==
    \/ \E c \in Slots : CheckNowClicked(c)
    \/ \E c \in Slots : FetchRejects(c)
    \/ \E c \in Slots : ResponseNotOk(c)
    \/ \E c \in Slots : ResponseOk(c)
    \/ \E c \in Slots : TextRejects(c)
    \/ \E c \in Slots : \E html \in Pages : TextResolves(c, html)

NextAlerts ==
    \/ \E answer \in NotificationPermissions :
          RequestNotificationPermissionCall(answer)
    \/ NextCycle

SpecAlerts == InitAlerts /\ [][NextAlerts]_vars

\* C26: when notification permission is granted, every successful cycle that
\* detects at least one NEW item raises a desktop notification.
C26_GrantedCycleNotifies ==
    [][\A c \in Slots :
          (/\ ApplyStep(c)
           /\ permission = "granted"
           /\ NewItems(changes') # <<>>)
          => notified' # <<>>]_vars

\* C27: sendNotifications raises no notification when notificationsEnabled is
\* false, and none when the changes hold no NEW event (empty, or REMOVED
\* only); the cycle that made the call still completes with the success
\* status, its button enabled again.
C27_NoNotificationWhenDisabledOrNothingNew ==
    [][/\ \A enabled \in BOOLEAN : sendNotifications(enabled, <<>>) = <<>>
       /\ \A c \in Slots :
             (/\ ApplyStep(c)
              /\ \/ ~notificationsEnabled
                 \/ NewItems(changes') = <<>>)
             => /\ notified' = <<>>
                /\ cycles'[c] = IdleCycle
                /\ status' = "success"
                /\ ~btnDisabled'
                /\ lastCall'.result = "returned"]_vars

\* a cycle with notifications enabled ended successfully on REMOVED events
\* only and raised nothing
C27_Witness ==
    /\ notificationsEnabled
    /\ status = "success"
    /\ changes # <<>>
    /\ NewItems(changes) = <<>>
    /\ notified = <<>>

\* C28: a cycle raises at most one notification; the notification carries
\* the single-item tag exactly when the cycle has exactly one NEW event and
\* the multiple-items tag exactly when it has two or more.
C28_OneGroupedNotification ==
    [][\A c \in Slots :
          ApplyStep(c)
          => /\ Len(notified') <= 1
             /\ \A k \in 1..Len(notified') :
                   /\ notified'[k].tag = "nola-news-single"
                        <=> Len(NewItems(changes')) = 1
                   /\ notified'[k].tag = "nola-news-multiple"
                        <=> Len(NewItems(changes')) >= 2]_vars

\* a cycle with one NEW event among several events raised the single-item
\* notification
C28_Witness ==
    /\ status = "success"
    /\ Len(changes) > 1
    /\ Len(NewItems(changes)) = 1
    /\ notified = <<Notification("New NOLA News Item", "nola-news-single")>>

-----------------------------------------------------------------------------
(* Termination of the cycles: every relay request eventually settles *)

\* the request or the body read of invocation c settles
Settles(c) ==
    \/ FetchRejects(c)
    \/ ResponseNotOk(c)
    \/ ResponseOk(c)
    \/ TextRejects(c)
    \/ \E html \in Pages : TextResolves(c, html)

\* the cycles of the page, started by the button and by the timers
NextLive ==
    \/ NextCycle
    \/ ToggleAutoCheck
    \/ \E c \in Slots : \E t \in timers : TimerFires(c, t)

SpecLive ==
    /\ Init
    /\ [][NextLive]_vars
    /\ \A c \in Slots : WF_vars(Settles(c))

\* the step in which invocation c ends
EndStep(c) == cycles[c].pc # "idle" /\ cycles'[c].pc = "idle"

\* C30: every triggered cycle terminates, after at most three relay
\* requests, in exactly one of success (result applied, success status) and
\* failure (error status, nothing applied), provided every relay request
\* eventually settles; the generations, the changes and lastCheck change
\* only in the step that ends a cycle whose own body has arrived.
C30_CycleTerminates ==
    /\ \A c \in Slots : (cycles[c].pc # "idle") ~> (cycles[c].pc = "idle")
    /\ [][\A c \in Slots :
            EndStep(c)
            => /\ Len(lastCall'.requested) <= 3
               /\ Len(lastCall'.requested) = Len(lastCall'.outcomes)
               /\ \/ /\ lastCall'.result = "returned"
                     /\ status' = "success"
                     /\ cycles[c].pc = "text"
                     /\ lastCall'.outcomes[Len(lastCall'.outcomes)] = "ok"
                     /\ lastCheck' = JSNum(now)
                  \/ /\ lastCall'.result = "threw"
                     /\ status' = "error"
                     /\ Len(lastCall'.requested) = 3
                     /\ \A k \in 1..3 : lastCall'.outcomes[k] = "failed"
                     /\ UNCHANGED generationVars]_vars
    /\ [][<<lastCheck, previousNews, currentNews, changes>>'
              # <<lastCheck, previousNews, currentNews, changes>>
            => \E c \in Slots : cycles[c].pc = "text" /\ EndStep(c)]_vars

\* a cycle that failed on all three relays has ended after one that applied
\* its result
C30_Witness ==
    /\ \A c \in Slots : cycles[c].pc = "idle"
    /\ lastCall.result = "threw"
    /\ Len(lastCall.requested) = 3
    /\ status = "error"
    /\ lastCheck # JSNull

-----------------------------------------------------------------------------
(* Extraction followed by scoring: the records of a page as displayNews
   shows them, on the day of the article and more than a day later *)

ParksTitle == <<"Parks", " ", "department", " ", "updates", " ", "hours">>

BreakingTitle ==
    <<"BREAKING:", " ", "Mayor", " ", "calls", " ", "Budget", " ", "Council">>

\* dated, no attribution line: the default source
AnchorParks ==
    Anchor(<<"/", "next", "/", "news", "/", "parks-hours">>, ParksTitle,
           <<ParksTitle, <<"August 7, 2025">>>>)

\* the same article attributed to the secondary source
AnchorParksNopd ==
    Anchor(<<"https://", "nopdnews.com", "/", "post", "/", "parks-hours">>,
           ParksTitle,
           <<ParksTitle, <<"August 7, 2025">>, <<"From NOPD News">>>>)

AnchorBreaking ==
    Anchor(<<"/", "next", "/", "news", "/", "budget-session">>, BreakingTitle,
           <<BreakingTitle, <<"August 7, 2025">>, <<"From NOPD News">>>>)

RenderAnchors == {AnchorParks, AnchorParksNopd, AnchorBreaking, AnchorPolice}

RenderClocks == {StartNow, StartNow + 30 * HourMs}

InitRender ==
    /\ activeKeywords = keywords
    /\ lastCheck = JSNull
    /\ previousNews = <<>>
    /\ currentNews = <<>>
    /\ autoCheckInterval = JSNull
    /\ autoCheckEnabled = FALSE
    /\ checkIntervalMinutes = 15
    /\ notificationsEnabled = FALSE
    /\ permission = "default"
    /\ notified = <<>>
    /\ localStorage = EmptyStorage
    /\ timers = {}
    /\ cycles = [c \in Slots |-> IdleCycle]
    /\ status = "idle"
    /\ btnDisabled = FALSE
    /\ changes = <<>>
    /\ lastMarkup = None
    /\ lastCall = NoCall
    /\ now \in RenderClocks
    /\ checks = 0
    /\ callArgs \in {<<html>> : html \in SeqsUpTo(RenderAnchors, MaxLen)}
    /\ callResult = None

\* this.displayNews(this.parseNewsFromHTML(html))
DisplayNewsCall ==
    /\ callResult = None
    /\ LET freshData == parseNewsFromHTML(callArgs[1], now)
       IN  callResult' = [kind |-> "display", items |-> freshData,
                          value |-> displayNews(freshData, activeKeywords,
                                                now)]
    /\ UNCHANGED <<generationVars, schedulerVars, configVars, callArgs,
                   cycles, status, btnDisabled, now, checks, lastCall>>

NextRender ==
    \/ DisplayNewsCall
    \/ \E keyword \in Tags : ToggleKeyword(keyword)

SpecRender == InitRender /\ [][NextRender]_vars

Rendered == callResult.kind = "display"

\* C33: an extracted record that matches no active keyword, has none of
\* breaking, emergency, budget, council in its title and is older than 24
\* hours is shown with score 1; one whose title has breaking or emergency
\* and that matches three keywords is shown with score 5.
C33_ExtremeScores ==
    Rendered =>
        \A k \in DOMAIN callResult.items :
            LET item == callResult.items[k]
                shown == callResult.value[k]
            IN  /\ (/\ shown.keywords = {}
                    /\ TitleBonus(item.title) = 0
                    /\ item.timestamp.kind = "num"
                    /\ now - item.timestamp.v > 24 * HourMs)
                   => shown.newsworthiness.score = 1
                /\ (/\ TitleBonus(item.title) >= 4
                    /\ Cardinality(shown.keywords) = 3)
                   => shown.newsworthiness.score = 5

-----------------------------------------------------------------------------
(* The cycles of one page session, started by the button and by the timers
   and overlapping each other *)

SpecCycles == Init /\ [][NextLive]_vars

\* C35: the step that applies a cycle's result prepends one entry to the
\* history, holding the number of extracted records and the number of
\* change events of that cycle; a failing step leaves the history alone;
\* no bucket holds change events.
C35_OneHistoryEntryPerSuccess ==
    /\ [][\A c \in Slots :
            /\ ApplyStep(c) =>
                 LET old == getHistory(localStorage)
                     new == getHistory(localStorage')
                 IN  /\ Len(new) = Len(old) + 1
                     /\ Tail(new) = old
                     /\ new[1] = [timestamp |-> now,
                                  newsCount |-> Len(currentNews'),
                                  changesCount |-> Len(changes')]
            /\ FailingStep(c) => UNCHANGED localStorage.history]_vars
    /\ [](/\ localStorage.data.kind = "json" =>
               DOMAIN localStorage.data.value =
                  {"lastCheck", "currentNews", "previousNews"}
          /\ localStorage.autocheck.kind = "json" =>
               DOMAIN localStorage.autocheck.value = {"enabled", "interval"}
          /\ \A k \in DOMAIN getHistory(localStorage) :
               DOMAIN getHistory(localStorage)[k] =
                  {"timestamp", "newsCount", "changesCount"})

\* two successful cycles, the second with two records and no change
C35_Witness ==
    /\ Len(getHistory(localStorage)) = 2
    /\ getHistory(localStorage)[1].newsCount = 2
    /\ getHistory(localStorage)[1].changesCount = 0
    /\ getHistory(localStorage)[2].changesCount = 2
    /\ lastCall.result = "returned"

\* item.isNew as displayNews reads it: a record without the field is not new
IsNew(item) == "isNew" \in DOMAIN item /\ item.isNew

\* C36: in the current set a successful cycle displays, exactly the
\* records reported as NEW by that cycle carry the isNew annotation.
C36_NewRecordsAnnotated ==
    [][\A c \in Slots :
          ApplyStep(c) =>
              \A k \in DOMAIN currentNews' :
                  IsNew(currentNews'[k]) <=>
                      \E j \in DOMAIN changes' :
                          /\ changes'[j].type = "NEW"
                          /\ changes'[j].item = currentNews'[k]]_vars

\* C37: autoCheckEnabled is true exactly when a timer is armed, that is
\* when autoCheckInterval holds a handle.
C37_FlagTracksTimer ==
    /\ autoCheckEnabled <=> autoCheckInterval # JSNull
    /\ autoCheckEnabled <=> timers # {}


\* another invocation is in flight next to invocation c
Overlapping(c) == \E d \in Slots \ {c} : cycles[d].pc # "idle"

\* C38: when cycles overlap, the step that applies one cycle's result makes
\* previousNews the currentNews left by the cycle that finished before it
\* and currentNews its own records, writes exactly these generations to the
\* data bucket and leaves the other cycle where it is; nothing else changes
\* the generations, so the data bucket always equals the generations in
\* memory.
C38_OverlapKeepsGenerations ==
    /\ [][\A c \in Slots :
            (ApplyStep(c) /\ Overlapping(c)) =>
                /\ previousNews' = currentNews
                /\ currentNews' = parseNewsFromHTML(lastMarkup'.html, now)
                /\ localStorage'.data =
                      Stored(StringifyData(now, currentNews', previousNews'))
                /\ \A d \in Slots \ {c} : cycles'[d] = cycles[d]]_vars
    /\ [][<<previousNews, currentNews, localStorage.data>>'
              # <<previousNews, currentNews, localStorage.data>>
            => \E c \in Slots : ApplyStep(c)]_vars
    /\ [](IF localStorage.data.kind = "json"
          THEN /\ localStorage.data.value.currentNews
                     = StringifyItems(currentNews)
               /\ localStorage.data.value.previousNews
                     = StringifyItems(previousNews)
          ELSE currentNews = <<>> /\ previousNews = <<>>)

\* a cycle has applied its records while the other, started before that,
\* still waits for its body; the success status is the finished cycle's
C38_Witness ==
    /\ \E c \in Slots : cycles[c].pc = "text"
    /\ status = "success"
    /\ lastCall.result = "returned"
    /\ Len(currentNews) = 2
    /\ localStorage.data.kind = "json"
    /\ localStorage.data.value.currentNews = StringifyItems(currentNews)

\* C39: a cycle that was in flight when clearHistory was confirmed does not
\* undo the clear. The status is "idle" with a cycle in flight only when a
\* clear came after the start of every cycle in flight and no cycle has
\* ended since; the end of such a cycle leaves the generations empty and the
\* data and history buckets absent.
C39_ClearNotUndone ==
    [][\A c \in Slots :
          (/\ cycles[c].pc # "idle"
           /\ status = "idle"
           /\ cycles'[c].pc = "idle")
          => /\ currentNews' = <<>>
             /\ previousNews' = <<>>
             /\ localStorage'.data = Absent
             /\ localStorage'.history = Absent]_vars
-----------------------------------------------------------------------------
(* One page session and its restarts: every operation that arms or disarms
   the timer, in any order *)

NextSession ==
    \/ NextScheduler
    \/ ToggleAutoCheck
    \/ ClearHistory

SpecSession == Init /\ [][NextSession]_vars

\* C40: whatever the sequence of startAutoCheck, stopAutoCheck,
\* toggleAutoCheck, setCheckInterval, clearHistory and reloads, at most one
\* timer is armed, the one whose handle autoCheckInterval holds, and the
\* firing of a timer starts one cycle.
C40_AtMostOneTimer ==
    /\ [](/\ Cardinality(timers) <= 1
          /\ \A t \in timers : autoCheckInterval = JSNum(t.id))
    /\ [][(\E c \in Slots : \E t \in timers : TimerFires(c, t))
            => Cardinality({c \in Slots : cycles'[c] # cycles[c]}) = 1]_vars

\* a timer re-armed by a second start, after a change of interval and a
\* confirmed clear, with a cycle it started in flight
C40_Witness ==
    /\ Cardinality(timers) = 1
    /\ \E t \in timers : t.ms = 5 * 60 * 1000
    /\ localStorage.autocheck = Stored([enabled |-> TRUE, interval |-> 5])
    /\ localStorage.history = Absent
    /\ \E c \in Slots : cycles[c].pc = "fetch"

=============================================================================
